---------------------------- MODULE Spec2Model ----------------------------
(***************************************************************************)
(* Model of the consumption pipeline of economato2024:                     *)
(*   data/consumi/merge_csv.py        process_csv_files, propagate_hierarchy,*)
(*                                    main                                 *)
(*   data/consumi/validate_data.py    load_all_original_data,              *)
(*                                    validate_processed_data              *)
(*   data/consumi/enhance_flat_data.py enhance_flat_data                   *)
(*   streamlit_app.py                 load_data, main                      *)
(*                                                                         *)
(* A pandas DataFrame is a sequence of records (one per row, in index      *)
(* order); a CSV file on disk is a sequence of records of CSV cells.       *)
(* Money is counted in cents.  A float cell is <<>> (NaN) or <<n>>.         *)
(* The fields file and pos of a row are provenance (source file and row    *)
(* position); no operation of the program reads them.                      *)
(***************************************************************************)
EXTENDS Integers, Sequences, FiniteSets, TLC

(***************************************************************************)
(* Bounds of the model.                                                    *)
(***************************************************************************)
MaxRows == 3        \* rows of the file of a run over one file
MaxFiles == 2       \* input files of a run over several files
MaxMultiRows == 2   \* rows of all the files together in a run over several files
MaxAnyRows == 1     \* rows of a file drawn from the full field domain
MaxDashRows == 2    \* rows of the file of a run shown by the dashboard

(***************************************************************************)
(* Cells.                                                                  *)
(***************************************************************************)
\* pandas' missing text value; read_csv also reads the text "NaN" as missing
NaN == "NaN"
\* a missing float, and the float of n cents
NaNf == <<>>
Num(n) == <<n>>
IsNum(v) == Len(v) = 1

\* a value cell of a CSV file: empty, a decimal numeral with a period
\* (whole.frac), a quoted numeral with a decimal comma ("whole,frac"), or
\* any other text
EmptyCell == [kind |-> "empty", whole |-> 0, frac |-> 0]
Numeral(w, f) == [kind |-> "numeral", whole |-> w, frac |-> f]
CommaNumeral(w, f) == [kind |-> "comma", whole |-> w, frac |-> f]
TextCell == [kind |-> "text", whole |-> 0, frac |-> 0]
\* a numeral with a decimal comma written without quotes: the comma is a
\* field separator, so the row has one field more than the header
UnquotedComma(w, f) == [kind |-> "unquoted", whole |-> w, frac |-> f]
NaNCell == [kind |-> "nan", whole |-> 0, frac |-> 0]

\* pd.read_csv on a text field: the empty field and the NA spellings are NaN
NaStrings == {"", "NaN", "NA", "N/A", "null"}
ReadCsvText(c) == IF c \in NaStrings THEN NaN ELSE c
\* pd.read_csv on a value field
ReadCsvValue(c) == IF c.kind = "empty" THEN NaNCell ELSE c
\* Series.fillna('')
Fillna(v) == IF v = NaN THEN "" ELSE v
\* Series.notna() on a value cell
NotNa(c) == c.kind # "nan"
\* pd.to_numeric(errors='coerce'): only period numerals parse, in cents
ToNumeric(c) == IF c.kind = "numeral" THEN Num(c.whole * 100 + c.frac) ELSE NaNf
\* DataFrame.to_csv on a float: the numeral of the float, NaN as the empty field
WriteCsvFloat(v) == IF IsNum(v) THEN Numeral(v[1] \div 100, v[1] % 100) ELSE EmptyCell
\* DataFrame.to_csv on a text: NaN and '' are both the empty field
WriteCsvText(v) == IF v = NaN THEN "" ELSE v

\* str(n) of the integers of the model
Decimal == << "0", "1", "2", "3", "4", "5", "6", "7", "8", "9", "10", "11", "12", "13" >>
IntText(n) == IF n < 0 THEN "-" \o Decimal[1 - n] ELSE Decimal[n + 1]
\* pd.read_csv on a column of integer numerals: leading zeros are dropped
ReadCsvInt(s) == CHOOSE n \in -13..13 : IntText(n) = s \/ "0" \o IntText(n) = s
\* Series.str.zfill(2)
ZFill2(s) == IF Len(s) >= 2 THEN s ELSE "0" \o s
\* pd.read_csv raises ParserError on a row with more fields than the header
ReadCsvRaises(rows) == \E i \in 2..Len(rows) : rows[i].Valore.kind = "unquoted"

(***************************************************************************)
(* Input: the CSV files found under the Consumi_2024 directories, in the   *)
(* order os.listdir and glob enumerate them.                               *)
(***************************************************************************)
\* os.path.basename(input_dir).split('_')[0] of a directory name split at '_':
\* CUCINA_Consumi_2024 gives CUCINA, _Consumi_2024 gives ''
RepartoOfDir(dir) == dir[1]

\* the columns of an export; a file may come without the Reparto column.
\* Every file is named details_MM_..., so that the Mese column is there;
\* month is the text MM of the name.
FullHeader ==
  {"Reparto", "Classe", "Categoria", "Codice", "Descrizione", "Quantita", "Primo Per.", "Sec. Per."}

RawRow(r, c, k, cod, des, v) ==
  [Reparto |-> r, Classe |-> c, Categoria |-> k, Codice |-> cod, Descrizione |-> des, Valore |-> v]

\* rows as the exports write them: a header row fills its own field only,
\* an article row fills code and description; header rows may carry subtotals
ExportRows ==
  { RawRow("BAR", "", "", "", "", EmptyCell),
    RawRow("SALA", "", "", "", "", Numeral(7, 0)),
    RawRow("", "Beverages", "", "", "", EmptyCell),
    RawRow("", "Food", "", "", "", Numeral(3, 0)),
    RawRow("", "", "Spirits", "", "", Numeral(2, 0)),
    RawRow("", "", "", "A1", "Gin", Numeral(10, 0)),
    RawRow("", "", "", "A1", "Gin", Numeral(0, 1)),
    RawRow("", "", "", "A1", "Gin", TextCell),
    RawRow("", "", "", "", "", Numeral(1, 0)) }

\* the rows of the runs over several files
SharedRows ==
  { RawRow("BAR", "", "", "", "", EmptyCell),
    RawRow("", "Beverages", "", "", "", Numeral(3, 0)),
    RawRow("", "", "", "A1", "Gin", Numeral(10, 0)),
    RawRow("", "", "", "A1", "Gin", Numeral(0, 1)),
    RawRow("", "", "", "A1", "Gin", EmptyCell) }

\* rows over every combination of filled and empty fields; a Reparto cell
\* may hold one blank
AnyRows ==
  { RawRow(r, c, k, cod, des, Numeral(10, 0)) :
      r \in {"", " ", "BAR"}, c \in {"", "Beverages"}, k \in {"", "Spirits"},
      cod \in {"", "A1"}, des \in {"", "Gin"} }

\* rows of articles whose value is written with a period, with a quoted
\* decimal comma, or with a decimal comma and no quotes
LocaleRows ==
  { RawRow("", "", "", "A1", "Gin", Numeral(10, 0)),
    RawRow("", "", "", "A1", "Gin", CommaNumeral(12, 50)),
    RawRow("", "", "", "A1", "Gin", UnquotedComma(12, 50)) }

\* the article rows of the runs over files of several months and directories
PeriodRows ==
  { RawRow("", "", "", "A1", "Gin", Numeral(10, 0)),
    RawRow("", "", "", "A1", "Gin", Numeral(0, 1)) }

\* the directory, the header and the month of a file
Sources ==
  { << <<"CUCINA", "Consumi", "2024">>, FullHeader, "04" >>,
    << <<"", "Consumi", "2024">>, FullHeader, "04" >>,
    << <<"CUCINA", "Consumi", "2024">>, FullHeader \ {"Reparto"}, "04" >> }

LocaleSources == { << <<"CUCINA", "Consumi", "2024">>, FullHeader, "04" >> }

\* file names details_MM_... with MM in and out of 01..12, and a second directory
PeriodSources ==
  { << <<"CUCINA", "Consumi", "2024">>, FullHeader, m >> : m \in {"04", "12", "00", "13", "-1"} }
    \cup { << <<"BAR", "Consumi", "2024">>, FullHeader, "04" >> }

\* a file without the Reparto column has no Reparto cell in any row; the
\* first data row of a file has as many fields as the header (with one more,
\* read_csv takes the first column for the index)
WellFormed(fs) ==
  \A f \in 1..Len(fs) :
    /\ "Reparto" \in fs[f].header \/ \A i \in 1..Len(fs[f].rows) : fs[f].rows[i].Reparto = ""
    /\ fs[f].rows[1].Valore.kind # "unquoted"

RECURSIVE SumLens(_)
SumLens(lens) == IF lens = <<>> THEN 0 ELSE Head(lens) + SumLens(Tail(lens))

\* the files of lens[i] rows each, cut from the row sequence flat
FilesFrom(flat, lens, kinds) ==
  [f \in 1..Len(lens) |->
     LET start == SumLens(SubSeq(lens, 1, f - 1))
     IN  [dir |-> kinds[f][1], header |-> kinds[f][2], month |-> kinds[f][3],
          rows |-> SubSeq(flat, start + 1, start + lens[f])]]

\* fs is a sequence of at most nmax files of the kinds sources, none empty,
\* that hold at most budget rows of the set rows together
IsInput(fs, rows, sources, nmax, budget) ==
  \E n \in 0..nmax :
    \E lens \in [1..n -> 1..budget] :
      /\ SumLens(lens) <= budget
      /\ \E kinds \in [1..n -> sources] :
           \E flat \in [1..SumLens(lens) -> rows] :
             /\ WellFormed(FilesFrom(flat, lens, kinds))
             /\ fs = FilesFrom(flat, lens, kinds)

(***************************************************************************)
(* process_csv_files: one file.                                            *)
(***************************************************************************)
\* df.rename(columns={'Primo Per.': 'Primo_Periodo', 'Sec. Per.': 'Secondo_Periodo'})
RenameColumns(header) ==
  IF "Primo Per." \in header /\ "Sec. Per." \in header
  THEN (header \ {"Primo Per.", "Sec. Per."}) \cup {"Primo_Periodo", "Secondo_Periodo"}
  ELSE header

\* the columns of df when the hierarchy is handled: Valore, Anno added
MergeColumns(header) ==
  LET cols == RenameColumns(header)
  IN  (IF "Primo_Periodo" \in cols THEN cols \cup {"Valore"} ELSE cols) \cup {"Anno"}

\* df[col] of a column that is not there raises KeyError; the except clause
\* of the loop body then skips the file
MergeRaises(header) ==
  ~ ({"Reparto", "Classe", "Categoria", "Descrizione", "Codice", "Valore"} \subseteq MergeColumns(header))

\* str.strip() on the texts of the model
Strip(s) == IF s = " " THEN "" ELSE s

\* pd.read_csv and the fillna('') of the five text columns
LoadRow(f, i, raw) ==
  [file |-> f, pos |-> i,
   Reparto |-> Fillna(ReadCsvText(raw.Reparto)),
   Classe |-> Fillna(ReadCsvText(raw.Classe)),
   Categoria |-> Fillna(ReadCsvText(raw.Categoria)),
   Codice |-> Fillna(ReadCsvText(raw.Codice)),
   Descrizione |-> Fillna(ReadCsvText(raw.Descrizione)),
   Valore |-> ReadCsvValue(raw.Valore)]

\* RowType with the masks applied as an if/elif chain: the first mask wins
RowTypeFirstMask(row) ==
  LET reparto_mask == row.Reparto # "" /\ row.Classe = ""
      classe_mask == row.Classe # "" /\ row.Categoria = ""
      categoria_mask == row.Categoria # "" /\ row.Descrizione = "" /\ row.Codice = ""
      articolo_mask == row.Descrizione # "" /\ row.Codice # ""
  IN  CASE reparto_mask -> "Reparto"
        [] ~ reparto_mask /\ classe_mask -> "Classe"
        [] ~ reparto_mask /\ ~ classe_mask /\ categoria_mask -> "Categoria"
        [] ~ reparto_mask /\ ~ classe_mask /\ ~ categoria_mask /\ articolo_mask -> "Articolo"
        [] OTHER -> "Unknown"

\* Row_Type: 'Unknown', then each mask in turn overwrites the rows it selects
RowType(row) ==
  LET reparto_mask == row.Reparto # "" /\ row.Classe = ""
      classe_mask == row.Classe # "" /\ row.Categoria = ""
      categoria_mask == row.Categoria # "" /\ row.Descrizione = "" /\ row.Codice = ""
      articolo_mask == row.Descrizione # "" /\ row.Codice # ""
      t0 == "Unknown"
      t1 == IF reparto_mask THEN "Reparto" ELSE t0
      t2 == IF classe_mask THEN "Classe" ELSE t1
      t3 == IF categoria_mask THEN "Categoria" ELSE t2
  IN  IF articolo_mask THEN "Articolo" ELSE t3

\* RepartoDir without the look into the file
RepartoDirOfDirectory(df, reparto_dir) == reparto_dir

\* Reparto_Dir: the directory's reparto when every Reparto cell is blank,
\* else the Reparto of the first row of type 'Reparto', else the directory's
RepartoDir(df, reparto_dir) ==
  IF \A i \in 1..Len(df) : Strip(df[i].Reparto) = ""
  THEN reparto_dir
  ELSE LET IsReparto(r) == r.Row_Type = "Reparto"
           reparto_values == SelectSeq(df, IsReparto)
       IN  IF Len(reparto_values) > 0 /\ reparto_values[1].Reparto # ""
           THEN reparto_values[1].Reparto
           ELSE reparto_dir

\* PropagateFrom where a Reparto row leaves a current_reparto that is set
RECURSIVE PropagateFromKeepFirst(_, _, _, _, _)
PropagateFromKeepFirst(df, i, current_reparto, current_classe, current_categoria) ==
  IF i > Len(df) THEN <<>>
  ELSE LET row == df[i]
           rep == IF row.Row_Type = "Reparto" /\ current_reparto = ""
                  THEN row.Reparto ELSE current_reparto
           cla == CASE row.Row_Type = "Reparto" -> ""
                    [] row.Row_Type = "Classe" -> row.Classe
                    [] OTHER -> current_classe
           cat == CASE row.Row_Type = "Reparto" -> ""
                    [] row.Row_Type = "Classe" -> ""
                    [] row.Row_Type = "Categoria" -> row.Categoria
                    [] OTHER -> current_categoria
           filled == [Reparto_Filled |-> IF rep # "" THEN rep ELSE row.Reparto_Dir,
                      Classe_Filled |-> cla,
                      Categoria_Filled |-> cat] @@ row
       IN  <<filled>> \o PropagateFromKeepFirst(df, i + 1, rep, cla, cat)

\* PropagateFrom where a Reparto row resets neither class nor category
RECURSIVE PropagateFromNoReset(_, _, _, _, _)
PropagateFromNoReset(df, i, current_reparto, current_classe, current_categoria) ==
  IF i > Len(df) THEN <<>>
  ELSE LET row == df[i]
           rep == IF row.Row_Type = "Reparto" THEN row.Reparto ELSE current_reparto
           cla == IF row.Row_Type = "Classe" THEN row.Classe ELSE current_classe
           cat == CASE row.Row_Type = "Classe" -> ""
                    [] row.Row_Type = "Categoria" -> row.Categoria
                    [] OTHER -> current_categoria
           filled == [Reparto_Filled |-> IF rep # "" THEN rep ELSE row.Reparto_Dir,
                      Classe_Filled |-> cla,
                      Categoria_Filled |-> cat] @@ row
       IN  <<filled>> \o PropagateFromNoReset(df, i + 1, rep, cla, cat)

\* PropagateFrom where an Articolo row clears the current category
RECURSIVE PropagateFromArticleResets(_, _, _, _, _)
PropagateFromArticleResets(df, i, current_reparto, current_classe, current_categoria) ==
  IF i > Len(df) THEN <<>>
  ELSE LET row == df[i]
           rep == IF row.Row_Type = "Reparto" THEN row.Reparto ELSE current_reparto
           cla == CASE row.Row_Type = "Reparto" -> ""
                    [] row.Row_Type = "Classe" -> row.Classe
                    [] OTHER -> current_classe
           cat == CASE row.Row_Type = "Reparto" -> ""
                    [] row.Row_Type = "Classe" -> ""
                    [] row.Row_Type = "Categoria" -> row.Categoria
                    [] row.Row_Type = "Articolo" -> ""
                    [] OTHER -> current_categoria
           filled == [Reparto_Filled |-> IF rep # "" THEN rep ELSE row.Reparto_Dir,
                      Classe_Filled |-> cla,
                      Categoria_Filled |-> cat] @@ row
       IN  <<filled>> \o PropagateFromArticleResets(df, i + 1, rep, cla, cat)

\* the loop of propagate_hierarchy from row i on, with the current values
RECURSIVE PropagateFrom(_, _, _, _, _)
PropagateFrom(df, i, current_reparto, current_classe, current_categoria) ==
  IF i > Len(df) THEN <<>>
  ELSE LET row == df[i]
           rep == IF row.Row_Type = "Reparto" THEN row.Reparto ELSE current_reparto
           cla == CASE row.Row_Type = "Reparto" -> ""
                    [] row.Row_Type = "Classe" -> row.Classe
                    [] OTHER -> current_classe
           cat == CASE row.Row_Type = "Reparto" -> ""
                    [] row.Row_Type = "Classe" -> ""
                    [] row.Row_Type = "Categoria" -> row.Categoria
                    [] OTHER -> current_categoria
           filled == [Reparto_Filled |-> IF rep # "" THEN rep ELSE row.Reparto_Dir,
                      Classe_Filled |-> cla,
                      Categoria_Filled |-> cat] @@ row
       IN  <<filled>> \o PropagateFrom(df, i + 1, rep, cla, cat)

propagate_hierarchy(df) == PropagateFrom(df, 1, "", "", "")

\* the rows of a file typed and propagated from given current values
PropagatedFrom(f, file, current_reparto, current_classe, current_categoria) ==
  LET loaded == [i \in 1..Len(file.rows) |->
                   [Mese |-> file.month] @@ LoadRow(f, i, file.rows[i])]
      typed == [i \in 1..Len(loaded) |-> [Row_Type |-> RowType(loaded[i])] @@ loaded[i]]
      dir == RepartoDir(typed, RepartoOfDir(file.dir))
      withDir == [i \in 1..Len(typed) |-> [Reparto_Dir |-> dir] @@ typed[i]]
  IN  PropagateFrom(withDir, 1, current_reparto, current_classe, current_categoria)

\* ProcessedFrame with the filter on Valore before the propagation
ProcessedFrameFilterFirst(f, file) ==
  LET loaded == [i \in 1..Len(file.rows) |->
                   [Mese |-> file.month] @@ LoadRow(f, i, file.rows[i])]
      HasValue(r) == NotNa(r.Valore)
      kept == SelectSeq(loaded, HasValue)
      typed == [i \in 1..Len(kept) |-> [Row_Type |-> RowType(kept[i])] @@ kept[i]]
      dir == RepartoDir(typed, RepartoOfDir(file.dir))
      withDir == [i \in 1..Len(typed) |-> [Reparto_Dir |-> dir] @@ typed[i]]
  IN  propagate_hierarchy(withDir)

\* the body of the loop over csv_files, up to the filter on Valore
ProcessedFrame(f, file) ==
  LET loaded == [i \in 1..Len(file.rows) |->
                   [Mese |-> file.month] @@ LoadRow(f, i, file.rows[i])]
      typed == [i \in 1..Len(loaded) |-> [Row_Type |-> RowType(loaded[i])] @@ loaded[i]]
      dir == RepartoDir(typed, RepartoOfDir(file.dir))
      withDir == [i \in 1..Len(typed) |-> [Reparto_Dir |-> dir] @@ typed[i]]
      HasValue(r) == NotNa(r.Valore)
  IN  SelectSeq(propagate_hierarchy(withDir), HasValue)

\* pd.concat(all_data, ignore_index=True)
RECURSIVE Concat(_)
Concat(dfs) == IF dfs = <<>> THEN <<>> ELSE Head(dfs) \o Concat(Tail(dfs))

\* a DataFrame or None; a file on disk or no file
NoFrame == [some |-> FALSE, rows |-> <<>>]
Frame(rows) == [some |-> TRUE, rows |-> rows]

(***************************************************************************)
(* Aggregation: DataFrame.groupby(keys)['Valore'].sum().reset_index()      *)
(***************************************************************************)
\* the texts of the model in Python's string order
StrOrder ==
  << "", " ", "A1", "BAR", "Beverages", "CUCINA", "Food", "Gin", "N/A", "SALA", "Spirits", "nan" >>
Rank(s) == CHOOSE i \in 1..Len(StrOrder) : StrOrder[i] = s

\* tuple order of the group keys
RECURSIVE KeyLess(_, _)
KeyLess(a, b) ==
  IF a = <<>> THEN FALSE
  ELSE \/ Rank(Head(a)) < Rank(Head(b))
       \/ Head(a) = Head(b) /\ KeyLess(Tail(a), Tail(b))

RECURSIVE SetToSeq(_)
SetToSeq(S) == IF S = {} THEN <<>> ELSE LET x == CHOOSE y \in S : TRUE IN <<x>> \o SetToSeq(S \ {x})

\* Series.sum(): NaN is skipped, the empty sum is 0
RECURSIVE SumValore(_)
SumValore(df) ==
  IF df = <<>> THEN 0
  ELSE (IF IsNum(Head(df).Valore) THEN Head(df).Valore[1] ELSE 0) + SumValore(Tail(df))

KeyOf(row, keys) == [i \in 1..Len(keys) |-> row[keys[i]]]

\* the keys of df in the order of their first row
RECURSIVE FirstKeys(_, _, _)
FirstKeys(df, keys, seen) ==
  IF df = <<>> THEN <<>>
  ELSE LET k == KeyOf(Head(df), keys)
       IN  IF k \in seen THEN FirstKeys(Tail(df), keys, seen)
           ELSE <<k>> \o FirstKeys(Tail(df), keys, seen \cup {k})

\* GroupBy with sort=False: the groups in the order of their first row
GroupByUnsorted(df, keys) ==
  LET Keyed(r) == \A i \in 1..Len(keys) : r[keys[i]] # NaN
      kept == SelectSeq(df, Keyed)
      order == FirstKeys(kept, keys, {})
  IN  [g \in 1..Len(order) |->
         LET InGroup(r) == KeyOf(r, keys) = order[g]
         IN  [key |-> order[g], Valore |-> Num(SumValore(SelectSeq(kept, InGroup)))]]

\* groupby drops the rows with a NaN key (dropna=True, the default), sorts
\* the groups by key and sums each group
GroupBy(df, keys) ==
  LET Keyed(r) == \A i \in 1..Len(keys) : r[keys[i]] # NaN
      kept == SelectSeq(df, Keyed)
      groups == { KeyOf(kept[i], keys) : i \in 1..Len(kept) }
      sorted == SortSeq(SetToSeq(groups), KeyLess)
  IN  [g \in 1..Len(sorted) |->
         LET InGroup(r) == KeyOf(r, keys) = sorted[g]
         IN  [key |-> sorted[g], Valore |-> Num(SumValore(SelectSeq(kept, InGroup)))]]

\* a summary written by to_csv and read back by read_csv
WriteSummary(summary) ==
  [i \in 1..Len(summary) |->
     [key |-> [j \in 1..Len(summary[i].key) |-> WriteCsvText(summary[i].key[j])],
      Valore |-> WriteCsvFloat(summary[i].Valore)]]

ReadSummary(csv) ==
  [i \in 1..Len(csv) |->
     [key |-> [j \in 1..Len(csv[i].key) |-> ReadCsvText(csv[i].key[j])],
      Valore |-> ToNumeric(ReadCsvValue(csv[i].Valore))]]

(***************************************************************************)
(* main of merge_csv.py after process_csv_files.                           *)
(***************************************************************************)
IsArticolo(r) == r.Row_Type = "Articolo"

\* ArticoliDf without the selection of the Articolo rows
ArticoliDfAllRows(result) ==
  [i \in 1..Len(result) |-> [result[i] EXCEPT !.Valore = ToNumeric(@)]]

\* articoli_df: the Articolo rows of result_df, Valore converted to numeric
ArticoliDf(result) ==
  LET art == SelectSeq(result, IsArticolo)
  IN  [i \in 1..Len(art) |-> [art[i] EXCEPT !.Valore = ToNumeric(@)]]

\* advanced_summary: every row of result_df whose numeric Valore is not 0
AdvancedSummary(result) ==
  LET num == [i \in 1..Len(result) |-> [result[i] EXCEPT !.Valore = ToNumeric(@)]]
      NonZero(r) == r.Valore # Num(0)
  IN  SelectSeq(num, NonZero)

\* cleaned_df written to cleaned_consumi_2024.csv
CleanedCsv(articoli_df) ==
  [i \in 1..Len(articoli_df) |->
     LET r == articoli_df[i]
     IN  [file |-> r.file, pos |-> r.pos,
          Reparto |-> WriteCsvText(r.Reparto_Filled),
          Classe |-> WriteCsvText(r.Classe_Filled),
          Categoria |-> WriteCsvText(r.Categoria_Filled),
          Codice |-> WriteCsvText(r.Codice),
          Descrizione |-> WriteCsvText(r.Descrizione),
          Valore |-> WriteCsvFloat(r.Valore),
          Mese |-> WriteCsvText(r.Mese)]]

\* pd.read_csv of cleaned_consumi_2024.csv or flat_articles.csv, Valore numeric
ReadArticles(csv) ==
  [i \in 1..Len(csv) |->
     LET r == csv[i]
     IN  [file |-> r.file, pos |-> r.pos,
          Reparto |-> ReadCsvText(r.Reparto),
          Classe |-> ReadCsvText(r.Classe),
          Categoria |-> ReadCsvText(r.Categoria),
          Codice |-> ReadCsvText(r.Codice),
          Descrizione |-> ReadCsvText(r.Descrizione),
          Valore |-> ToNumeric(ReadCsvValue(r.Valore)),
          Mese |-> ReadCsvInt(r.Mese)]]

\* DataFrame.to_csv of such a frame
WriteArticles(df) ==
  [i \in 1..Len(df) |->
     LET r == df[i]
     IN  [file |-> r.file, pos |-> r.pos,
          Reparto |-> WriteCsvText(r.Reparto),
          Classe |-> WriteCsvText(r.Classe),
          Categoria |-> WriteCsvText(r.Categoria),
          Codice |-> WriteCsvText(r.Codice),
          Descrizione |-> WriteCsvText(r.Descrizione),
          Valore |-> WriteCsvFloat(r.Valore),
          Mese |-> IntText(r.Mese)]]

(***************************************************************************)
(* validate_data.py                                                        *)
(***************************************************************************)
\* the columns load_all_original_data reads of a file
LoadRaises(header) ==
  ~ ({"Codice", "Descrizione", "Primo_Periodo"} \subseteq RenameColumns(header))

\* the article rows of one file: Codice and Descrizione not NaN
OriginalArticles(f, file) ==
  LET loaded == [i \in 1..Len(file.rows) |->
                   [file |-> f, pos |-> i,
                    Codice |-> ReadCsvText(file.rows[i].Codice),
                    Descrizione |-> ReadCsvText(file.rows[i].Descrizione),
                    Valore |-> ReadCsvValue(file.rows[i].Valore)]]
      IsArticle(r) == r.Codice # NaN /\ r.Descrizione # NaN
  IN  SelectSeq(loaded, IsArticle)

\* all_articles after the loop over the files from file f on
RECURSIVE AllArticlesFrom(_, _)
AllArticlesFrom(fs, f) ==
  IF f > Len(fs) THEN <<>>
  ELSE (IF ReadCsvRaises(fs[f].rows) \/ LoadRaises(fs[f].header)
        THEN <<>> ELSE << OriginalArticles(f, fs[f]) >>)
       \o AllArticlesFrom(fs, f + 1)

load_all_original_data(fs) ==
  LET all_articles == AllArticlesFrom(fs, 1)
  IN  IF all_articles # <<>> THEN Frame(Concat(all_articles)) ELSE NoFrame

Abs(x) == IF x < 0 THEN -x ELSE x

\* 0.01 of the comparisons, in cents
Tolerance == 1

\* TotalsMatch with the bound included
TotalsMatchInclusive(a, b) == Abs(a - b) <= Tolerance

\* the test of a comparison of two totals
TotalsMatch(a, b) == Abs(a - b) < Tolerance

(***************************************************************************)
(* enhance_flat_data.py: DataFrame.sort_values                             *)
(***************************************************************************)
\* calendar.month_name: '' at 0, the names at 1..12, Python's negative
\* indices count from the end, any other index raises IndexError
MonthNames ==
  << "", "January", "February", "March", "April", "May", "June", "July",
     "August", "September", "October", "November", "December" >>
MonthNameRaises(n) == n > 12 \/ n < -13
\* get_month_name of an integer month: int() succeeds, the except clause
\* (ValueError, TypeError) does not catch the IndexError
get_month_name(month_str) == MonthNames[(IF month_str < 0 THEN month_str + 13 ELSE month_str) + 1]

\* the rows of enhanced_articles.csv: Mese_Nome, Mese filled to two digits, Data
EnhancedCsv(df) ==
  [i \in 1..Len(df) |->
     LET r == df[i]
         mese == ZFill2(IntText(r.Mese))
     IN  [file |-> r.file, pos |-> r.pos,
          Reparto |-> WriteCsvText(r.Reparto),
          Classe |-> WriteCsvText(r.Classe),
          Categoria |-> WriteCsvText(r.Categoria),
          Codice |-> WriteCsvText(r.Codice),
          Descrizione |-> WriteCsvText(r.Descrizione),
          Valore |-> WriteCsvFloat(r.Valore),
          Mese |-> mese,
          Mese_Nome |-> get_month_name(r.Mese),
          Data |-> "2024-" \o mese]]

\* a goes before b: by the leading key columns ascending, then by Valore descending
RECURSIVE SortsBefore(_, _, _)
SortsBefore(a, b, nkeys) ==
  IF nkeys = 0 THEN a.Valore[1] > b.Valore[1]
  ELSE \/ Rank(Head(a.key)) < Rank(Head(b.key))
       \/ /\ Head(a.key) = Head(b.key)
          /\ SortsBefore([a EXCEPT !.key = Tail(@)], [b EXCEPT !.key = Tail(@)], nkeys - 1)

\* stable insertion of x into the sorted s
RECURSIVE InsertSorted(_, _, _)
InsertSorted(s, x, nkeys) ==
  IF s = <<>> THEN <<x>>
  ELSE IF SortsBefore(x, Head(s), nkeys) THEN <<x>> \o s
       ELSE <<Head(s)>> \o InsertSorted(Tail(s), x, nkeys)

RECURSIVE SortFrom(_, _, _, _)
SortFrom(s, i, acc, nkeys) ==
  IF i > Len(s) THEN acc ELSE SortFrom(s, i + 1, InsertSorted(acc, s[i], nkeys), nkeys)

\* sort_values(by=[first nkeys key columns, 'Valore'], ascending=[True, ..., False])
SortValues(summary, nkeys) == SortFrom(summary, 1, <<>>, nkeys)

(***************************************************************************)
(* streamlit_app.py: load_data and the tables of the page.                 *)
(***************************************************************************)
\* Series.astype(str): the missing value becomes the text 'nan'
AsTypeStr(v) == IF v = NaN THEN "nan" ELSE v
\* Series.replace(old, new)
Replace(v, old, new) == IF v = old THEN new ELSE v
\* pd.to_numeric(errors='coerce').fillna(0), in cents
NumericOrZero(c) == IF IsNum(ToNumeric(c)) THEN ToNumeric(c)[1] ELSE 0

\* load_data: the empty frame when enhanced_articles.csv is not there; else
\* the rows of the file under the lowercase names, costo numeric, the
\* columns of the filters as str, '' replaced by 'N/A' in classe and categoria
load_data(file) ==
  IF ~ file.some THEN <<>>
  ELSE [i \in 1..Len(file.rows) |->
          LET r == file.rows[i]
          IN  [file |-> r.file, pos |-> r.pos,
               reparto |-> AsTypeStr(ReadCsvText(r.Reparto)),
               classe |-> Replace(AsTypeStr(ReadCsvText(r.Classe)), "", "N/A"),
               categoria |-> Replace(AsTypeStr(ReadCsvText(r.Categoria)), "", "N/A"),
               codice |-> ReadCsvText(r.Codice),
               descrizione |-> ReadCsvText(r.Descrizione),
               costo |-> NumericOrZero(ReadCsvValue(r.Valore)),
               mese |-> IntText(ReadCsvInt(r.Mese)),
               mese_nome |-> AsTypeStr(ReadCsvText(r.Mese_Nome)),
               data |-> r.Data]]

\* the first option of a selectbox
Tutti == "Tutti"

\* Series.unique() of a column, as the set of the options of a selectbox
Unique(frame, col) == { frame[i][col] : i \in 1..Len(frame) }

\* filtered_df[filtered_df[col] == selected], when an option other than Tutti is selected
FilterBy(frame, col, selected) ==
  LET Matches(r) == r[col] = selected
  IN  IF selected = Tutti THEN frame ELSE SelectSeq(frame, Matches)

\* the four filters of the sidebar, in the order of the code; the year is
\* 2024 in every row and is not a choice
ApplyFilters(frame, sel) ==
  FilterBy(FilterBy(FilterBy(FilterBy(frame, "mese_nome", sel.mese),
                             "reparto", sel.reparto),
                    "classe", sel.classe),
           "categoria", sel.categoria)

RECURSIVE SumCosto(_)
SumCosto(frame) == IF frame = <<>> THEN 0 ELSE Head(frame).costo + SumCosto(Tail(frame))

\* groupby(col)['costo'].sum().reset_index().sort_values('costo', ascending=False)
CostBy(frame, col) ==
  LET sorted == SortSeq(SetToSeq({ <<k>> : k \in Unique(frame, col) }), KeyLess)
      summed == [g \in 1..Len(sorted) |->
                   LET InGroup(r) == r[col] = sorted[g][1]
                   IN  [key |-> sorted[g], Valore |-> Num(SumCosto(SelectSeq(frame, InGroup)))]]
  IN  SortValues(summed, 0)

\* st.secrets of a deployment: the attribute of the module and the keys of
\* the secrets file; the values of the two keys are the same in every deployment
SecretsConfigs ==
  { [hasattr |-> FALSE, keys |-> {}] }
    \cup { [hasattr |-> TRUE, keys |-> k] : k \in SUBSET {"USERNAME", "PASSWORD"} }
AUTHORIZED_USERNAME == "admin"
AUTHORIZED_PASSWORD == "secret"
\* what a user types into the two text inputs
Usernames == {"", "admin"}
Passwords == {"", "secret"}

\* authenticate with one matching field enough
AuthenticateEither(username, password) ==
  username = AUTHORIZED_USERNAME \/ password = AUTHORIZED_PASSWORD

authenticate(username, password) ==
  username = AUTHORIZED_USERNAME /\ password = AUTHORIZED_PASSWORD

\* st.session_state.get("authenticated", False)
Authenticated(state) == state.has /\ state.authenticated

(***************************************************************************)
(* State.                                                                  *)
(***************************************************************************)
VARIABLES
  files,          \* the input files, in enumeration order
  pc,             \* the step of the run: merge_csv, validate_data, enhance_flat_data
  fileIdx,        \* the file the loop of process_csv_files is at
  all_data,       \* all_data of process_csv_files
  result_df,      \* result_df of main
  reparto_summary, classe_summary, categoria_summary,
  advanced_csv,   \* advanced_analysis.csv
  cleaned_csv,    \* cleaned_consumi_2024.csv
  reparto_summary_csv,
  original_total, processed_total, reparto_total,
  report,         \* the verdicts validate_processed_data prints
  flat_articles_csv,
  reparto_verification_total, class_verification_total, category_verification_total,
  exit_status,    \* exit status of validate_data.py
  enhanced_csv,   \* enhanced_articles.csv
  class_breakdown, category_breakdown, top_depts,
  enhance_status, \* exit status of enhance_flat_data.py
  secrets,        \* st.secrets of the running dashboard
  session_state,  \* st.session_state of the browser session
  rerun,          \* st.rerun() was called: the next run starts by itself
  run,            \* the widget values of the latest run of streamlit_app.py
  view,           \* what the latest run put on the page
  loaded_df,      \* df of main: the frame load_data returned in the latest run, if it was called
  filtered_df,
  available_classes, available_categories,
  dept_cost, class_cost, cat_cost

mergeVars == << all_data, result_df, reparto_summary, classe_summary, categoria_summary,
                advanced_csv, cleaned_csv, reparto_summary_csv >>
validateVars == << original_total, processed_total, reparto_total, report, flat_articles_csv,
                   reparto_verification_total, class_verification_total,
                   category_verification_total, exit_status >>
enhanceVars == << enhanced_csv, class_breakdown, category_breakdown, top_depts, enhance_status >>
dashVars == << secrets, session_state, rerun, run, view, loaded_df, filtered_df,
                available_classes, available_categories, dept_cost, class_cost, cat_cost >>
vars == << files, pc, fileIdx, mergeVars, validateVars, enhanceVars, dashVars >>

None == <<>>
NotRun == -1

\* the dashboard before it is started, and a browser session before its first run
NoSecrets == [hasattr |-> FALSE, keys |-> {}]
NewSessionState == [has |-> FALSE, authenticated |-> FALSE]
AllTutti == [mese |-> Tutti, reparto |-> Tutti, classe |-> Tutti, categoria |-> Tutti]
NoRun == [button |-> "none", username |-> "", password |-> "", sel |-> AllTutti]

\* data/processed_csv/flat_articles.csv as an earlier run over other input
\* left it (os.makedirs(..., exist_ok=True) keeps what is there); its row
\* comes from no file of this run
LeftoverFlat ==
  Frame(<< [file |-> 0, pos |-> 0, Reparto |-> "BAR", Classe |-> "Beverages",
            Categoria |-> "Spirits", Codice |-> "A1", Descrizione |-> "Gin",
            Valore |-> Numeral(10, 0), Mese |-> "4"] >>)

Init ==
  /\ \/ IsInput(files, ExportRows, Sources, 1, MaxRows)
     \/ IsInput(files, SharedRows, Sources, MaxFiles, MaxMultiRows)
     \/ IsInput(files, AnyRows, Sources, 1, MaxAnyRows)
     \/ IsInput(files, LocaleRows, LocaleSources, 1, MaxRows)
     \/ IsInput(files, PeriodRows, PeriodSources, MaxFiles, MaxMultiRows)
  /\ pc = "process"
  /\ fileIdx = 1
  /\ all_data = <<>>
  /\ result_df = NoFrame
  /\ reparto_summary = <<>>
  /\ classe_summary = <<>>
  /\ categoria_summary = <<>>
  /\ advanced_csv = NoFrame
  /\ cleaned_csv = NoFrame
  /\ reparto_summary_csv = NoFrame
  /\ original_total = None
  /\ processed_total = None
  /\ reparto_total = None
  /\ report = <<>>
  \* the output directory is empty or holds the flat file of an earlier run;
  \* the earlier file is there in the runs over no input file, where no
  \* step writes the file again
  /\ flat_articles_csv \in (IF files = <<>> THEN {NoFrame, LeftoverFlat} ELSE {NoFrame})
  /\ reparto_verification_total = None
  /\ class_verification_total = None
  /\ category_verification_total = None
  /\ exit_status = NotRun
  /\ enhanced_csv = NoFrame
  /\ class_breakdown = <<>>
  /\ category_breakdown = <<>>
  /\ top_depts = <<>>
  /\ enhance_status = NotRun
  /\ secrets = NoSecrets
  /\ session_state = NewSessionState
  /\ rerun = FALSE
  /\ run = NoRun
  /\ view = "none"
  /\ loaded_df = NoFrame
  /\ filtered_df = <<>>
  /\ available_classes = {}
  /\ available_categories = {}
  /\ dept_cost = <<>>
  /\ class_cost = <<>>
  /\ cat_cost = <<>>

(***************************************************************************)
(* merge_csv.py                                                            *)
(***************************************************************************)
\* ProcessFile with the current values of propagate_hierarchy kept from
\* the file before
ProcessFileCarried ==
  /\ pc = "process"
  /\ fileIdx <= Len(files)
  /\ LET before == IF fileIdx > 1
                   THEN PropagatedFrom(fileIdx - 1, files[fileIdx - 1], "", "", "")
                   ELSE <<>>
         last == IF before = <<>>
                 THEN [Reparto_Filled |-> "", Classe_Filled |-> "", Categoria_Filled |-> ""]
                 ELSE before[Len(before)]
         HasValue(r) == NotNa(r.Valore)
         frame == SelectSeq(PropagatedFrom(fileIdx, files[fileIdx], last.Reparto_Filled,
                                           last.Classe_Filled, last.Categoria_Filled),
                            HasValue)
     IN  all_data' = IF ReadCsvRaises(files[fileIdx].rows) \/ MergeRaises(files[fileIdx].header)
                     THEN all_data
                     ELSE Append(all_data, frame)
  /\ fileIdx' = fileIdx + 1
  /\ UNCHANGED << files, pc, result_df, reparto_summary, classe_summary, categoria_summary,
                  advanced_csv, cleaned_csv, reparto_summary_csv, validateVars, enhanceVars, dashVars >>

\* one turn of the loop over the files: the frame is appended to all_data,
\* or the exception of the body is caught and the file is skipped
ProcessFile ==
  /\ pc = "process"
  /\ fileIdx <= Len(files)
  /\ all_data' = IF ReadCsvRaises(files[fileIdx].rows) \/ MergeRaises(files[fileIdx].header)
                 THEN all_data
                 ELSE Append(all_data, ProcessedFrame(fileIdx, files[fileIdx]))
  /\ fileIdx' = fileIdx + 1
  /\ UNCHANGED << files, pc, result_df, reparto_summary, classe_summary, categoria_summary,
                  advanced_csv, cleaned_csv, reparto_summary_csv, validateVars, enhanceVars, dashVars >>

\* the end of process_csv_files: the combined frame, or None
Combine ==
  /\ pc = "process"
  /\ fileIdx > Len(files)
  /\ result_df' = IF all_data # <<>> THEN Frame(Concat(all_data)) ELSE NoFrame
  /\ pc' = "summaries"
  /\ UNCHANGED << files, fileIdx, all_data, reparto_summary, classe_summary, categoria_summary,
                  advanced_csv, cleaned_csv, reparto_summary_csv, validateVars, enhanceVars, dashVars >>

\* main: the summaries and the cleaned file, when there is a result
Summaries ==
  /\ pc = "summaries"
  /\ pc' = "validate"
  /\ IF result_df.some
     THEN LET articoli_df == ArticoliDf(result_df.rows)
          IN  /\ reparto_summary' = GroupBy(articoli_df, <<"Reparto_Filled">>)
              /\ reparto_summary_csv' = Frame(WriteSummary(reparto_summary'))
              /\ classe_summary' = GroupBy(articoli_df, <<"Reparto_Filled", "Classe_Filled">>)
              /\ categoria_summary' =
                   GroupBy(articoli_df, <<"Reparto_Filled", "Classe_Filled", "Categoria_Filled">>)
              /\ advanced_csv' = Frame(AdvancedSummary(result_df.rows))
              /\ cleaned_csv' = Frame(CleanedCsv(articoli_df))
     ELSE UNCHANGED << reparto_summary, reparto_summary_csv, classe_summary, categoria_summary,
                       advanced_csv, cleaned_csv >>
  /\ UNCHANGED << files, fileIdx, all_data, result_df, validateVars, enhanceVars, dashVars >>

(***************************************************************************)
(* validate_data.py                                                        *)
(***************************************************************************)
Verdict(name, a, b) == [name |-> name, pass |-> TotalsMatch(a, b)]

\* validate_processed_data: returns early without original data; reading a
\* file that is not there raises, the except clause prints the error; the
\* function returns None and the script ends with status 0 in every case
Validate ==
  /\ pc = "validate"
  /\ pc' = "enhance"
  /\ exit_status' = 0
  /\ LET original_df == load_all_original_data(files)
         original == [i \in 1..Len(original_df.rows) |->
                        [original_df.rows[i] EXCEPT !.Valore = ToNumeric(@)]]
     IN  IF ~ original_df.some
         THEN UNCHANGED << original_total, processed_total, reparto_total, report,
                           flat_articles_csv, reparto_verification_total,
                           class_verification_total, category_verification_total >>
         ELSE /\ original_total' = Num(SumValore(original))
              /\ IF ~ cleaned_csv.some
                 THEN UNCHANGED << processed_total, reparto_total, report, flat_articles_csv,
                                   reparto_verification_total, class_verification_total,
                                   category_verification_total >>
                 ELSE LET processed_df == ReadArticles(cleaned_csv.rows)
                          ptotal == SumValore(processed_df)
                          rtotal == SumValore(ReadSummary(reparto_summary_csv.rows))
                          flat_articles == processed_df
                      IN  /\ processed_total' = Num(ptotal)
                          /\ reparto_total' = Num(rtotal)
                          /\ report' = << Verdict("original", SumValore(original), ptotal),
                                          Verdict("reparto", rtotal, ptotal) >>
                          /\ flat_articles_csv' = Frame(WriteArticles(flat_articles))
                          /\ reparto_verification_total' =
                               Num(SumValore(GroupBy(flat_articles, <<"Reparto">>)))
                          /\ class_verification_total' =
                               Num(SumValore(GroupBy(flat_articles, <<"Reparto", "Classe">>)))
                          /\ category_verification_total' =
                               Num(SumValore(GroupBy(flat_articles,
                                                     <<"Reparto", "Classe", "Categoria">>)))
  /\ UNCHANGED << files, fileIdx, mergeVars, enhanceVars, dashVars >>

(***************************************************************************)
(* enhance_flat_data.py                                                    *)
(***************************************************************************)
\* enhance_flat_data: returns at once when flat_articles.csv is not there;
\* the IndexError of get_month_name ends the script before it writes a file
Enhance ==
  /\ pc = "enhance"
  /\ pc' = "done"
  /\ IF ~ flat_articles_csv.some
     THEN /\ enhance_status' = 0
          /\ UNCHANGED << enhanced_csv, class_breakdown, category_breakdown, top_depts >>
     ELSE LET df == ReadArticles(flat_articles_csv.rows)
          IN  IF \E i \in 1..Len(df) : MonthNameRaises(df[i].Mese)
              THEN /\ enhance_status' = 1
                   /\ UNCHANGED << enhanced_csv, class_breakdown, category_breakdown, top_depts >>
              ELSE
                  /\ enhance_status' = 0
                  /\ enhanced_csv' = Frame(EnhancedCsv(df))
                  /\ class_breakdown' = SortValues(GroupBy(df, <<"Reparto", "Classe">>), 1)
                  /\ category_breakdown' =
                       SortValues(GroupBy(df, <<"Reparto", "Classe", "Categoria">>), 2)
                  /\ top_depts' = SortValues(GroupBy(df, <<"Reparto">>), 0)
  /\ UNCHANGED << files, fileIdx, mergeVars, validateVars, dashVars >>

(***************************************************************************)
(* streamlit_app.py                                                        *)
(***************************************************************************)
\* the input of the runs the dashboard shows: one file at most, of
\* MaxDashRows rows at most, of these rows
DashRows ==
  { RawRow("BAR", "", "", "", "", EmptyCell),
    RawRow("", "Beverages", "", "", "", EmptyCell),
    RawRow("", "", "Spirits", "", "", Numeral(2, 0)),
    RawRow("", "", "", "A1", "Gin", Numeral(10, 0)),
    RawRow("", "", "", "A1", "Gin", Numeral(0, 1)) }

DashInput(fs) ==
  /\ Len(fs) <= 1
  /\ \A f \in 1..Len(fs) : Len(fs[f].rows) <= MaxDashRows
  /\ \A f \in 1..Len(fs) : \A i \in 1..Len(fs[f].rows) : fs[f].rows[i] \in DashRows

\* streamlit run streamlit_app.py, after the three scripts: the server
\* finds the secrets of the deployment
StartApp ==
  /\ pc = "done"
  /\ pc' = "dashboard"
  /\ secrets' \in SecretsConfigs
  /\ UNCHANGED << files, fileIdx, mergeVars, validateVars, enhanceVars, session_state, rerun,
                  run, view, loaded_df, filtered_df, available_classes, available_categories,
                  dept_cost, class_cost, cat_cost >>

\* a browser opens or reloads the page: a session with an empty session_state
NewSession ==
  /\ pc = "dashboard"
  /\ session_state' = NewSessionState
  /\ rerun' = FALSE
  /\ run' = NoRun
  /\ view' = "none"
  /\ loaded_df' = NoFrame
  /\ filtered_df' = <<>>
  /\ available_classes' = {}
  /\ available_categories' = {}
  /\ dept_cost' = <<>>
  /\ class_cost' = <<>>
  /\ cat_cost' = <<>>
  /\ UNCHANGED << files, pc, fileIdx, mergeVars, validateVars, enhanceVars, secrets >>

\* the end of a run that stops before load_data
StopsBeforeData(state, again, widgets, shown) ==
  /\ session_state' = state
  /\ rerun' = again
  /\ run' = widgets
  /\ view' = shown
  /\ loaded_df' = NoFrame
  /\ filtered_df' = <<>>
  /\ available_classes' = {}
  /\ available_categories' = {}
  /\ dept_cost' = <<>>
  /\ class_cost' = <<>>
  /\ cat_cost' = <<>>

\* the widgets of the page the user acts on; after st.rerun() no widget is touched
LoginFormShown == view \in {"login", "login_failed"}
FiltersShown == view \in {"dashboard", "no_match"}
LogoutShown == view = "dashboard"

\* sel is old with one selectbox changed; the category selectbox goes back
\* to its first option when its value is not among the categories of a new class
OneChange(old, sel, categories) ==
  \/ \E f \in {"mese", "reparto", "categoria"} : \A g \in DOMAIN sel \ {f} : sel[g] = old[g]
  \/ /\ sel.mese = old.mese
     /\ sel.reparto = old.reparto
     /\ sel.categoria = IF old.categoria \in categories THEN old.categoria ELSE Tutti

\* one run of main, from the top of the script to its end, st.stop() or st.rerun()
Run ==
  /\ pc = "dashboard"
  /\ LET \* lines 186-190
         state == IF ~ secrets.hasattr THEN [has |-> TRUE, authenticated |-> TRUE]
                  ELSE IF ~ session_state.has THEN [has |-> TRUE, authenticated |-> FALSE]
                  ELSE session_state
     IN  IF ~ Authenticated(state)
         THEN IF ~ secrets.hasattr \/ "USERNAME" \notin secrets.keys
                                   \/ "PASSWORD" \notin secrets.keys
              THEN StopsBeforeData(state, FALSE, NoRun, "credentials_error")
              ELSE \E username \in (IF LoginFormShown /\ ~ rerun THEN Usernames ELSE {""}),
                      password \in (IF LoginFormShown /\ ~ rerun THEN Passwords ELSE {""}),
                      button \in (IF LoginFormShown /\ ~ rerun THEN {"none", "Login"} ELSE {"none"}) :
                     LET widgets == [NoRun EXCEPT !.button = button, !.username = username,
                                                  !.password = password]
                     IN  IF button = "Login"
                         THEN IF authenticate(username, password)
                              THEN StopsBeforeData([state EXCEPT !.authenticated = TRUE], TRUE,
                                                   widgets, "login")
                              ELSE StopsBeforeData(state, FALSE, widgets, "login_failed")
                         ELSE StopsBeforeData(state, FALSE, widgets, "login")
         ELSE LET loaded == load_data(enhanced_csv)
              IN  IF loaded = <<>>
                  THEN /\ session_state' = state
                       /\ rerun' = FALSE
                       /\ run' = NoRun
                       /\ view' = "no_data"
                       /\ loaded_df' = Frame(loaded)
                       /\ filtered_df' = <<>>
                       /\ available_classes' = {}
                       /\ available_categories' = {}
                       /\ dept_cost' = <<>>
                       /\ class_cost' = <<>>
                       /\ cat_cost' = <<>>
                  ELSE \E mese \in {Tutti} \cup Unique(loaded, "mese_nome"),
                          reparto \in {Tutti} \cup Unique(loaded, "reparto"),
                          classe \in {Tutti} \cup Unique(loaded, "classe") :
                         \E categoria \in {Tutti} \cup Unique(FilterBy(loaded, "classe", classe),
                                                             "categoria"),
                            button \in (IF LogoutShown /\ ~ rerun THEN {"none", "Logout"}
                                        ELSE {"none"}) :
                           LET sel == [mese |-> mese, reparto |-> reparto, classe |-> classe,
                                       categoria |-> categoria]
                               categories == Unique(FilterBy(loaded, "classe", classe), "categoria")
                               filtered == ApplyFilters(loaded, sel)
                           IN  \* the selectboxes keep their values where no user touches
                               \* them; a change of one selectbox starts the run
                               /\ \/ sel = run.sel
                                  \/ /\ FiltersShown /\ ~ rerun /\ button = "none"
                                     /\ OneChange(run.sel, sel, categories)
                               /\ run' = [NoRun EXCEPT !.sel = sel, !.button = button]
                               /\ loaded_df' = Frame(loaded)
                               /\ filtered_df' = filtered
                               /\ available_classes' = {Tutti} \cup Unique(loaded, "classe")
                               /\ available_categories' =
                                    {Tutti} \cup Unique(FilterBy(loaded, "classe", classe), "categoria")
                               /\ IF filtered = <<>>
                                  THEN /\ button = "none"
                                       /\ session_state' = state
                                       /\ rerun' = FALSE
                                       /\ view' = "no_match"
                                       /\ dept_cost' = <<>>
                                       /\ class_cost' = <<>>
                                       /\ cat_cost' = <<>>
                                  ELSE /\ view' = "dashboard"
                                       /\ dept_cost' = CostBy(filtered, "reparto")
                                       /\ class_cost' = CostBy(filtered, "classe")
                                       /\ cat_cost' = CostBy(filtered, "categoria")
                                       /\ session_state' =
                                            IF button = "Logout"
                                            THEN [state EXCEPT !.authenticated = FALSE]
                                            ELSE state
                                       /\ rerun' = (button = "Logout")
  /\ UNCHANGED << files, pc, fileIdx, mergeVars, validateVars, enhanceVars, secrets >>

Next == ProcessFile \/ Combine \/ Summaries \/ Validate \/ Enhance

Spec == Init /\ [][Next]_vars

\* the three scripts over the input of the dashboard, then the dashboard
DashInit == Init /\ DashInput(files)
DashNext == Next \/ StartApp \/ NewSession \/ Run
DashSpec == DashInit /\ [][DashNext]_vars

(***************************************************************************)
(* The source rows of the frames, for the properties below.                *)
(***************************************************************************)
\* the rows of input file f as process_csv_files loads and types them
LoadedFile(f) == [i \in 1..Len(files[f].rows) |-> LoadRow(f, i, files[f].rows[i])]
KindAt(f, i) == RowType(LoadedFile(f)[i])

\* the last row of kind kind in rows from..to of file f, 0 when there is none
LastOfKind(f, kind, from, to) ==
  LET S == { j \in from..to : KindAt(f, j) = kind }
  IN  IF S = {} THEN 0 ELSE CHOOSE j \in S : \A k \in S : k <= j

\* the first row of kind kind of file f, 0 when there is none
FirstOfKind(f, kind) ==
  LET S == { j \in 1..Len(files[f].rows) : KindAt(f, j) = kind }
  IN  IF S = {} THEN 0 ELSE CHOOSE j \in S : \A k \in S : j <= k

\* the rows process_csv_files has stamped so far
StampedRows == UNION { { all_data[d][i] : i \in 1..Len(all_data[d]) } : d \in 1..Len(all_data) }
StampedArticles == { r \in StampedRows : r.Row_Type = "Articolo" }

(***************************************************************************)
(* C1  Row kinds.                                                          *)
(***************************************************************************)
Flags(row) ==
  [department |-> row.Reparto # "", class |-> row.Classe # "",
   category |-> row.Categoria # "", code |-> row.Codice # "",
   description |-> row.Descrizione # ""]

\* the four rules in the order Department, Class, Category, Article
RuleKind == << "Reparto", "Classe", "Categoria", "Articolo" >>
RuleMatches(n, fl) ==
  CASE n = 1 -> fl.department /\ ~ fl.class
    [] n = 2 -> fl.class /\ ~ fl.category
    [] n = 3 -> fl.category /\ ~ fl.description /\ ~ fl.code
    [] n = 4 -> fl.description /\ fl.code
MatchingRules(fl) == { n \in 1..4 : RuleMatches(n, fl) }
FirstMatchKind(fl) ==
  IF MatchingRules(fl) = {} THEN "Unknown"
  ELSE RuleKind[CHOOSE n \in MatchingRules(fl) : \A m \in MatchingRules(fl) : n <= m]
LastMatchKind(fl) ==
  IF MatchingRules(fl) = {} THEN "Unknown"
  ELSE RuleKind[CHOOSE n \in MatchingRules(fl) : \A m \in MatchingRules(fl) : m <= n]

\* C1 as stated: every row has the kind of the first rule that matches its
\* presence flags, in the order Department, Class, Category, Article, else Unknown
C1_FirstMatchWins == \A r \in StampedRows : r.Row_Type = FirstMatchKind(Flags(r))

\* C1 amended: every row has the kind of the last rule that matches its
\* presence flags, in the order Department, Class, Category, Article, else Unknown
C1_LastMatchWins == \A r \in StampedRows : r.Row_Type = LastMatchKind(Flags(r))

\* C1 witness: a row with department, code and description present and class
\* absent has been typed Article
C1_Witness ==
  \E r \in StampedRows :
    /\ Flags(r).department /\ ~ Flags(r).class /\ Flags(r).code /\ Flags(r).description
    /\ r.Row_Type = "Articolo"

(***************************************************************************)
(* C2, C3  The department of an article.                                   *)
(***************************************************************************)
\* C2: the department stamped on an Article row that has a Department row
\* before it in its file is the value of the last such row
C2_LastDepartmentWins ==
  \A r \in StampedArticles :
    LET d == LastOfKind(r.file, "Reparto", 1, r.pos - 1)
    IN  d # 0 => r.Reparto_Filled = LoadedFile(r.file)[d].Reparto

\* C2 witness: an Article row after two Department rows of different values
C2_Witness ==
  \E r \in StampedArticles :
    \E d1, d2 \in 1..(r.pos - 1) :
      /\ d1 < d2
      /\ KindAt(r.file, d1) = "Reparto" /\ KindAt(r.file, d2) = "Reparto"
      /\ LoadedFile(r.file)[d1].Reparto # LoadedFile(r.file)[d2].Reparto
      /\ r.Reparto_Filled = LoadedFile(r.file)[d2].Reparto

\* the fallback department of file f: the directory's name when every Reparto
\* cell of the file is blank or the file has no Department row, else the
\* value of the first Department row of the file
FileFallback(f) ==
  IF \/ \A i \in 1..Len(files[f].rows) : Strip(LoadedFile(f)[i].Reparto) = ""
     \/ FirstOfKind(f, "Reparto") = 0
  THEN RepartoOfDir(files[f].dir)
  ELSE LoadedFile(f)[FirstOfKind(f, "Reparto")].Reparto

\* C3 as stated: an Article row with no Department row before it in its file
\* is stamped with the department derived from the directory, also when a
\* Department row comes later in the file
C3_DirectoryFallback ==
  \A r \in StampedArticles :
    LastOfKind(r.file, "Reparto", 1, r.pos - 1) = 0
      => r.Reparto_Filled = RepartoOfDir(files[r.file].dir)

\* C3 amended: an Article row with no Department row before it in its file
\* is stamped with the fallback of the file, which is the directory's name
\* only when the file has no Department row (or only blank Reparto cells)
\* and else the value of the first Department row of the file
C3_FileFallback ==
  \A r \in StampedArticles :
    LastOfKind(r.file, "Reparto", 1, r.pos - 1) = 0
      => r.Reparto_Filled = FileFallback(r.file)

\* C3 witness: an Article row with no Department row before it and one after
\* it, stamped with the value of that later row and not with the directory's
C3_Witness ==
  \E r \in StampedArticles :
    /\ LastOfKind(r.file, "Reparto", 1, r.pos - 1) = 0
    /\ FirstOfKind(r.file, "Reparto") > r.pos
    /\ r.Reparto_Filled = LoadedFile(r.file)[FirstOfKind(r.file, "Reparto")].Reparto
    /\ r.Reparto_Filled # RepartoOfDir(files[r.file].dir)

(***************************************************************************)
(* C4  The class and the category of an article.                           *)
(***************************************************************************)
\* the class in force at row i of file f: the value of the last Class row
\* after the last Department row, '' when there is none
ClassInForce(f, i) ==
  LET d == LastOfKind(f, "Reparto", 1, i - 1)
      c == LastOfKind(f, "Classe", d + 1, i - 1)
  IN  IF c = 0 THEN "" ELSE LoadedFile(f)[c].Classe

\* the category in force: the value of the last Category row after the last
\* Department or Class row, '' when there is none
CategoryInForce(f, i) ==
  LET d == LastOfKind(f, "Reparto", 1, i - 1)
      c == LastOfKind(f, "Classe", 1, i - 1)
      from == (IF d > c THEN d ELSE c) + 1
      k == LastOfKind(f, "Categoria", from, i - 1)
  IN  IF k = 0 THEN "" ELSE LoadedFile(f)[k].Categoria

\* C4: every Article row carries the class and the category in force, so
\* none set before the last Department row (or, for the category, before the
\* last Class row)
C4_ResetOnHeader ==
  \A r \in StampedArticles :
    /\ r.Classe_Filled = ClassInForce(r.file, r.pos)
    /\ r.Categoria_Filled = CategoryInForce(r.file, r.pos)

\* C4 witness: an Article row that comes after a Class row and a later
\* Department row carries no class
C4_Witness ==
  \E r \in StampedArticles :
    /\ LastOfKind(r.file, "Classe", 1, r.pos - 1) # 0
    /\ LastOfKind(r.file, "Reparto", 1, r.pos - 1) > LastOfKind(r.file, "Classe", 1, r.pos - 1)
    /\ r.Classe_Filled = ""

(***************************************************************************)
(* C5  Aggregates are sums over Article rows only.                         *)
(***************************************************************************)
\* all_data of a run of process_csv_files over the files fs, from file f on
RECURSIVE AllDataFrom(_, _)
AllDataFrom(fs, f) ==
  IF f > Len(fs) THEN <<>>
  ELSE (IF ReadCsvRaises(fs[f].rows) \/ MergeRaises(fs[f].header)
        THEN <<>> ELSE << ProcessedFrame(f, fs[f]) >>)
       \o AllDataFrom(fs, f + 1)

\* the summaries of a run of merge_csv.py over the files fs
SummariesOf(fs) ==
  LET articoli_df == ArticoliDf(Concat(AllDataFrom(fs, 1)))
  IN  [reparto |-> GroupBy(articoli_df, <<"Reparto_Filled">>),
       classe |-> GroupBy(articoli_df, <<"Reparto_Filled", "Classe_Filled">>),
       categoria |-> GroupBy(articoli_df, <<"Reparto_Filled", "Classe_Filled", "Categoria_Filled">>),
       total |-> SumValore(articoli_df)]

\* the input with the value cell of every row that is no Article set to v
WithHeaderValues(fs, v) ==
  [f \in 1..Len(fs) |->
     [fs[f] EXCEPT !.rows =
        [i \in 1..Len(fs[f].rows) |->
           IF RowType(LoadRow(f, i, fs[f].rows[i])) = "Articolo"
           THEN fs[f].rows[i]
           ELSE [fs[f].rows[i] EXCEPT !.Valore = v]]]]

HeaderValues == { EmptyCell, TextCell, Numeral(99, 99) }

SummariesDone == pc \in {"validate", "enhance", "done"}

\* C5: the summaries by department, class and category and the grand total
\* of the run are those of the same input with the value of every
\* Department, Class, Category and Unknown row removed or changed
C5_ArticlesOnly ==
  SummariesDone =>
    \A v \in HeaderValues :
      LET other == SummariesOf(WithHeaderValues(files, v))
      IN  /\ reparto_summary = other.reparto
          /\ classe_summary = other.classe
          /\ categoria_summary = other.categoria
          /\ IsNum(processed_total) => processed_total[1] = other.total

\* C5 witness: summaries with a sum that is not 0, computed from a result
\* that holds a row of another kind with a numeric value
C5_Witness ==
  /\ SummariesDone
  /\ IsNum(processed_total) /\ processed_total[1] > 0
  /\ \E i \in 1..Len(reparto_summary) : reparto_summary[i].Valore[1] > 0
  /\ \E i \in 1..Len(result_df.rows) :
       /\ result_df.rows[i].Row_Type # "Articolo"
       /\ IsNum(ToNumeric(result_df.rows[i].Valore))

(***************************************************************************)
(* C6  Hierarchical consistency of the groupings.                          *)
(***************************************************************************)
\* the rows of summary whose key starts with prefix
UnderKey(summary, prefix) ==
  LET Under(r) == SubSeq(r.key, 1, Len(prefix)) = prefix
  IN  SelectSeq(summary, Under)

\* every row of coarse is the sum of the rows of fine under its key
SumsUp(coarse, fine) ==
  \A i \in 1..Len(coarse) :
    coarse[i].Valore[1] = SumValore(UnderKey(fine, coarse[i].key))

\* the groupings of merge_csv.main are consistent with the leaf records
C6_MainConsistent ==
  SummariesDone /\ result_df.some =>
    /\ SumValore(reparto_summary) = SumValore(ArticoliDf(result_df.rows))
    /\ SumValore(classe_summary) = SumValore(reparto_summary)
    /\ SumValore(categoria_summary) = SumValore(classe_summary)
    /\ SumsUp(reparto_summary, classe_summary)
    /\ SumsUp(classe_summary, categoria_summary)

\* the groupings validate_processed_data recomputes from the flat file
C6_ValidateConsistent ==
  IsNum(reparto_verification_total) =>
    /\ reparto_verification_total = processed_total
    /\ class_verification_total = reparto_verification_total
    /\ category_verification_total = class_verification_total

\* the groupings enhance_flat_data recomputes from the flat file
C6_EnhanceConsistent ==
  pc = "done" /\ flat_articles_csv.some =>
    /\ SumValore(top_depts) = SumValore(ReadArticles(flat_articles_csv.rows))
    /\ SumsUp(top_depts, class_breakdown)
    /\ SumsUp(class_breakdown, category_breakdown)

\* C6: the department rows sum to the grand total, the class rows of a
\* department to its department row and the category rows of a class to its
\* class row, in merge_csv.main, validate_data and enhance_flat_data
C6_HierarchicalConsistency ==
  C6_MainConsistent /\ C6_ValidateConsistent /\ C6_EnhanceConsistent

(***************************************************************************)
(* C7  The leaf records carry the raw total.                               *)
(***************************************************************************)
ValidateDone == pc \in {"enhance", "done"}

\* the sum of the values of the leaf records the pipeline produced
LeafTotal == IF cleaned_csv.some THEN SumValore(ReadArticles(cleaned_csv.rows)) ELSE 0

\* C7: the values of the leaf records sum to the total of the raw article
\* rows, which validate_data computes without hierarchy resolution
C7_LeafTotalIsRawTotal ==
  ValidateDone /\ IsNum(original_total) => LeafTotal = original_total[1]

(***************************************************************************)
(* C8, C9  The comparisons of validate_data.                               *)
(***************************************************************************)
\* the two totals of a comparison
Compared(name) ==
  IF name = "original" THEN << original_total[1], processed_total[1] >>
  ELSE << reparto_total[1], processed_total[1] >>

Difference(name) == Abs(Compared(name)[1] - Compared(name)[2])

C9_FailureBlocksSuccess ==
  (exit_status # NotRun /\ \E i \in 1..Len(report) : ~ report[i].pass) => exit_status # 0

(***************************************************************************)
(* C10  Values that do not parse.                                          *)
(***************************************************************************)
\* C10: every leaf record of the cleaned and of the flat file has a numeric
\* value, and every department row of the summary has a leaf record with a
\* numeric value, so no Article row whose value did not parse is a leaf
\* record or makes an aggregate row of 0
C10_LeafValuesNumeric ==
  /\ \A i \in 1..Len(cleaned_csv.rows) : cleaned_csv.rows[i].Valore.kind = "numeral"
  /\ \A i \in 1..Len(flat_articles_csv.rows) : flat_articles_csv.rows[i].Valore.kind = "numeral"
  /\ \A g \in 1..Len(reparto_summary) :
       \E i \in 1..Len(result_df.rows) :
         /\ result_df.rows[i].Row_Type = "Articolo"
         /\ result_df.rows[i].Reparto_Filled = reparto_summary[g].key[1]
         /\ IsNum(ToNumeric(result_df.rows[i].Valore))

(***************************************************************************)
(* C11  Values written with a decimal comma.                               *)
(***************************************************************************)
\* the value cell of the input row a leaf record comes from
SourceCell(leaf) == files[leaf.file].rows[leaf.pos].Valore

\* C11: an Article row whose value is written with a decimal comma is a
\* leaf record of that value (12,50 is 12.50), and the row of its
\* department in the summary counts it
C11_CommaDecimalParsed ==
  SummariesDone =>
    \A i \in 1..Len(cleaned_csv.rows) :
      LET leaf == cleaned_csv.rows[i]
      IN  SourceCell(leaf).kind = "comma" =>
            /\ leaf.Valore = Numeral(SourceCell(leaf).whole, SourceCell(leaf).frac)
            /\ \E g \in 1..Len(reparto_summary) :
                 /\ reparto_summary[g].key = << leaf.Reparto >>
                 /\ reparto_summary[g].Valore[1] >= SourceCell(leaf).whole * 100 + SourceCell(leaf).frac

(***************************************************************************)
(* C12  The month of a record.                                             *)
(***************************************************************************)
\* the rows of enhanced_articles.csv that come from the flat record r
EnhancedOf(r) ==
  { j \in 1..Len(enhanced_csv.rows) :
      enhanced_csv.rows[j].file = r.file /\ enhanced_csv.rows[j].pos = r.pos }

\* C12: enhance_flat_data ends normally; a record of a month in 1..12 is in
\* the enhanced file with the month in two digits and the name of the month;
\* a record of a month outside 1..12 is not in the enhanced file
C12_MalformedMonthExcluded ==
  pc = "done" /\ result_df.some /\ flat_articles_csv.some =>
    /\ enhance_status = 0
    /\ \A i \in 1..Len(flat_articles_csv.rows) :
         LET r == flat_articles_csv.rows[i]
             m == ReadCsvInt(files[r.file].month)
         IN  IF m \in 1..12
             THEN \E j \in EnhancedOf(r) :
                    /\ enhanced_csv.rows[j].Mese = (IF m < 10 THEN "0" \o Decimal[m + 1] ELSE Decimal[m + 1])
                    /\ enhanced_csv.rows[j].Mese_Nome = MonthNames[m + 1]
             ELSE EnhancedOf(r) = {}

(***************************************************************************)
(* C13  The department of a leaf record is not empty.                      *)
(***************************************************************************)
\* C13: every Article row is stamped with a department that is not the
\* empty string, also in a file of a directory whose name gives '' 
C13_DepartmentNonEmpty == \A r \in StampedArticles : r.Reparto_Filled # ""

(***************************************************************************)
(* C14  Leaf records supplied more than once.                              *)
(***************************************************************************)
\* a leaf record without its provenance
LeafFields(r) ==
  << r.Reparto, r.Classe, r.Categoria, r.Codice, r.Descrizione, r.Mese, r.Valore >>

NoDuplicates(rows) ==
  \A i, j \in 1..Len(rows) : i # j => LeafFields(rows[i]) # LeafFields(rows[j])

\* C14: no leaf record is twice in the cleaned file or in the flat file, so
\* a record supplied twice is counted once
C14_Deduplicated == NoDuplicates(cleaned_csv.rows) /\ NoDuplicates(flat_articles_csv.rows)

(***************************************************************************)
(* C15  Files are propagated independently.                                *)
(***************************************************************************)
\* the loop over the files has ended; all_data does not change afterwards
ProcessDone == pc = "summaries"

\* the Articolo rows of a sequence of frames
ArticlesOf(frames) ==
  { r \in UNION { { frames[d][i] : i \in 1..Len(frames[d]) } : d \in 1..Len(frames) } :
      r.Row_Type = "Articolo" }

\* the ancestor path of a stamped row, and the leaf record it makes
Path(r) == << r.Reparto_Filled, r.Classe_Filled, r.Categoria_Filled >>
LeafOf(r) == << Path(r), r.Codice, r.Descrizione, r.Mese, r.Valore >>

Perms(n) == { p \in [1..n -> 1..n] : \A i, j \in 1..n : i # j => p[i] # p[j] }
Permuted(fs, p) == [i \in 1..Len(fs) |-> fs[p[i]]]

DescendingBySum(summary) ==
  \A i \in 1..(Len(summary) - 1) :
    \/ summary[i].Valore[1] > summary[i + 1].Valore[1]
    \/ /\ summary[i].Valore[1] = summary[i + 1].Valore[1]
       /\ KeyLess(summary[i].key, summary[i + 1].key)

\* rows by key ascending
AscendingByKey(summary) ==
  \A i \in 1..(Len(summary) - 1) : KeyLess(summary[i].key, summary[i + 1].key)

\* rows by the first nkeys key columns ascending, then by descending sum,
\* ties by key ascending
OrderedWithin(summary, nkeys) ==
  \A i \in 1..(Len(summary) - 1) :
    LET a == summary[i]
        b == summary[i + 1]
        pa == SubSeq(a.key, 1, nkeys)
        pb == SubSeq(b.key, 1, nkeys)
    IN  \/ KeyLess(pa, pb)
        \/ /\ pa = pb
           /\ \/ a.Valore[1] > b.Valore[1]
              \/ a.Valore[1] = b.Valore[1] /\ KeyLess(a.key, b.key)

C18_LeavesUnchanged ==
  /\ \A r \in StampedRows :
       r.Row_Type \in {"Articolo", "Unknown"} =>
         /\ r.pos = 1 => Path(r) = << r.Reparto_Dir, "", "" >>
         /\ \A p \in StampedRows : p.file = r.file /\ p.pos + 1 = r.pos => Path(r) = Path(p)
  /\ \A i \in 1..Len(cleaned_csv.rows) :
       KindAt(cleaned_csv.rows[i].file, cleaned_csv.rows[i].pos) = "Articolo"

\* C18 witness: a row with a category in force, then an Article row, then an
\* Unknown row, all with that category, and the Unknown row is no leaf record
C18_Witness ==
  /\ SummariesDone
  /\ \E p, r, u \in StampedRows :
       /\ p.file = r.file /\ r.file = u.file
       /\ p.pos + 1 = r.pos /\ r.pos + 1 = u.pos
       /\ r.Row_Type = "Articolo" /\ u.Row_Type = "Unknown"
       /\ p.Categoria_Filled # ""
       /\ Path(r) = Path(p) /\ Path(u) = Path(p)
       /\ \A i \in 1..Len(cleaned_csv.rows) :
            ~ (cleaned_csv.rows[i].file = u.file /\ cleaned_csv.rows[i].pos = u.pos)

(***************************************************************************)
(* C19  A record that cannot be read.                                      *)
(***************************************************************************)
\* C19: of a file with the columns of an export, every row with a value
\* that is read without error reaches the merged output, whatever the other
\* rows of the file are
C19_RecordErrorIsolated ==
  ProcessDone =>
    \A f \in 1..Len(files) :
      ~ MergeRaises(files[f].header) =>
        \A i \in 1..Len(files[f].rows) :
          files[f].rows[i].Valore.kind \notin {"unquoted", "empty"} =>
            \E r \in StampedRows : r.file = f /\ r.pos = i

(***************************************************************************)
(* C20  Header rows without a value.                                       *)
(***************************************************************************)
\* the input with the value of row i of file f removed
WithoutValue(fs, f, i) == [fs EXCEPT ![f].rows[i].Valore = EmptyCell]

ArticlePaths(frames) == { << r.file, r.pos, Path(r) >> : r \in ArticlesOf(frames) }

\* C20: removing the value of any Department, Class or Category row
\* changes the ancestor path of no Article row
C20_ValueFreeHeaders ==
  ProcessDone =>
    \A f \in 1..Len(files) :
      \A i \in 1..Len(files[f].rows) :
        KindAt(f, i) \in {"Reparto", "Classe", "Categoria"} =>
          ArticlePaths(AllDataFrom(WithoutValue(files, f, i), 1)) = ArticlePaths(all_data)

\* C20 witness: an Article row carries the department of a Department row
\* before it that has no value and is not in the frame
C20_Witness ==
  /\ ProcessDone
  /\ \E r \in StampedArticles :
       \E d \in 1..(r.pos - 1) :
         /\ KindAt(r.file, d) = "Reparto"
         /\ files[r.file].rows[d].Valore = EmptyCell
         /\ r.Reparto_Filled = LoadedFile(r.file)[d].Reparto
         /\ \A p \in StampedRows : ~ (p.file = r.file /\ p.pos = d)

(***************************************************************************)
(* C17  The aggregate rows are determined by the input.                    *)
(***************************************************************************)
\* C17: the summaries of merge_csv are the same, rows and order, for the
\* input files in any order of enumeration, and a run whose input gives no
\* result emits no aggregate row, whatever the output directory held before
C17_InputDetermined ==
  /\ SummariesDone =>
       \A p \in Perms(Len(files)) :
         LET other == SummariesOf(Permuted(files, p))
         IN  /\ reparto_summary = other.reparto
             /\ classe_summary = other.classe
             /\ categoria_summary = other.categoria
  /\ pc = "done" /\ ~ result_df.some =>
       class_breakdown = <<>> /\ category_breakdown = <<>> /\ top_depts = <<>>


(***************************************************************************)
(* C21  The login gate of the dashboard.                                   *)
(***************************************************************************)
\* a step of Run (NewSession alone leaves an empty page)
RunStep == pc = "dashboard" /\ view' # "none"
\* session_state.authenticated at line 192 of the run that starts in this state
AuthenticatedAtGate == ~ secrets.hasattr \/ Authenticated(session_state)
CredentialsConfigured == {"USERNAME", "PASSWORD"} \subseteq secrets.keys
DataShown == {"dashboard", "no_data", "no_match"}

C21_Step ==
  RunStep =>
    /\ loaded_df'.some \/ view' \in DataShown => AuthenticatedAtGate
    /\ (loaded_df'.some /\ ~ rerun') => Authenticated(session_state')
    /\ secrets.hasattr =>
         /\ (~ Authenticated(session_state) /\ Authenticated(session_state')) =>
              /\ CredentialsConfigured
              /\ run'.button = "Login"
              /\ run'.username = AUTHORIZED_USERNAME
              /\ run'.password = AUTHORIZED_PASSWORD
         /\ (run'.button = "Login" /\ ~ (/\ run'.username = AUTHORIZED_USERNAME
                                         /\ run'.password = AUTHORIZED_PASSWORD)) =>
              (~ loaded_df'.some /\ ~ Authenticated(session_state') /\ ~ rerun')
         /\ (~ CredentialsConfigured) =>
              (~ loaded_df'.some /\ view' = "credentials_error"
                 /\ ~ Authenticated(session_state'))
         /\ run'.button = "Logout" => (~ Authenticated(session_state') /\ rerun')
         /\ (rerun /\ ~ Authenticated(session_state)) =>
              (view' = "login" /\ ~ loaded_df'.some)

\* C21: in every run of the dashboard the data is loaded and shown only when
\* session_state.authenticated is True at the gate, and a session that is left
\* showing data is authenticated; with st.secrets there, authenticated turns
\* True only in a run with a Login click whose username and password both
\* equal the configured ones, a Login click with another pair and a
\* deployment without both credentials stop before load_data, a Logout click
\* sets authenticated to False and asks for a rerun, and that rerun shows the
\* login form and loads nothing.
C21_LoginGate == [][C21_Step]_vars

\* a session that logged in, saw the data and clicked Logout
C21_Witness ==
  /\ pc = "dashboard"
  /\ secrets.hasattr
  /\ run.button = "Logout"
  /\ loaded_df.some
  /\ rerun
  /\ ~ Authenticated(session_state)

(***************************************************************************)
(* C22  Records without a class or a category in the dashboard.            *)
(***************************************************************************)
\* the rows of class_cost or cat_cost under the label
CostUnder(cost, label) ==
  LET Labelled(g) == g.key = <<label>> IN SelectSeq(cost, Labelled)

\* C22: every leaf record whose resolved class (category) is empty is a row
\* of the frame of load_data with classe (categoria) 'N/A'; 'N/A' is then an
\* option of the class (category) selectbox, and with every filter at Tutti
\* the per-class (per-category) costs have a row 'N/A' with the sum of the
\* costs of these records.
C22_EmptyShownAsNA ==
  (pc = "dashboard" /\ view = "dashboard" /\ result_df.some) =>
    LET leaves == ArticoliDf(result_df.rows)
        NoClass(d) == \E j \in 1..Len(leaves) :
                        /\ leaves[j].file = d.file /\ leaves[j].pos = d.pos
                        /\ leaves[j].Classe_Filled = ""
        NoCategory(d) == \E j \in 1..Len(leaves) :
                           /\ leaves[j].file = d.file /\ leaves[j].pos = d.pos
                           /\ leaves[j].Categoria_Filled = ""
    IN  /\ \A j \in 1..Len(leaves) :
             \E i \in 1..Len(loaded_df.rows) :
               loaded_df.rows[i].file = leaves[j].file /\ loaded_df.rows[i].pos = leaves[j].pos
        /\ \A i \in 1..Len(loaded_df.rows) :
             /\ NoClass(loaded_df.rows[i]) => loaded_df.rows[i].classe = "N/A"
             /\ NoCategory(loaded_df.rows[i]) => loaded_df.rows[i].categoria = "N/A"
        /\ (\E i \in 1..Len(loaded_df.rows) : NoClass(loaded_df.rows[i])) =>
             /\ "N/A" \in available_classes
             /\ run.sel = AllTutti =>
                  CostUnder(class_cost, "N/A") =
                    << [key |-> <<"N/A">>,
                        Valore |-> Num(SumCosto(SelectSeq(loaded_df.rows, NoClass)))] >>
        /\ (\E i \in 1..Len(loaded_df.rows) : NoCategory(loaded_df.rows[i])) =>
             /\ run.sel.classe = Tutti => "N/A" \in available_categories
             /\ run.sel = AllTutti =>
                  CostUnder(cat_cost, "N/A") =
                    << [key |-> <<"N/A">>,
                        Valore |-> Num(SumCosto(SelectSeq(loaded_df.rows, NoCategory)))] >>

=============================================================================
